---- MODULE Spec2Model ----
(***************************************************************************)
(* mini-fuzz: the trace scanner (detectors/detector.py) and the round      *)
(* loop that drives it (fuzzer/mini_fuzzer.py).                            *)
(*                                                                         *)
(* Spec     the VulnerabilityDetector object under its most general        *)
(*          client: reentrancy(i), tx_origin(i) and reset_variables()      *)
(*          called in any order with any instruction.                      *)
(* SpecScan the same object given reentrancy(i) only, on instructions     *)
(*          whose operands are all there: the scan of one longer trace.    *)
(* SpecRun  MiniFuzzer.run(): rounds, test-suite generation, deployment,   *)
(*          execute_functions and the instruction loop over each trace.    *)
(***************************************************************************)
EXTENDS Integers, Sequences, FiniteSets, TLC

\* ------------------------------------------------------------------ bounds
MaxPc == 2          \* program counters are drawn from 0..MaxPc
MaxTrace == 3       \* instructions fed to the detector between two resets
MaxResets == 1      \* resets of the detector in one behaviour of Spec
MaxScan == 4        \* instructions of the trace scanned in SpecScan

\* ------------------------------------------------------------ Python values
\* A value that may be None is held as a sequence: <<>> for None, <<x>> for x.
NoneValue == <<>>
Some(x) == <<x>>
The(v) == v[1]
Absent == "<absent>"       \* a key the dict does not hold (KeyError on access)

\* ---------------------------------------------------------- stack operands
\* A stack operand is a hex string; it is modelled as the sequence of its
\* digit values, a character that is no hex digit having a value >= 16
\* (Python's int(s, 16) rejects every digit whose value is not below the base).
Radix == 16
Zero == <<0>>
AtStipend == <<8, 15, 12>>       \* "8fc"  = 2300
OverStipend == <<8, 15, 13>>     \* "8fd"  = 2301
NotHex == <<16>>                 \* "g"
Operands == {Zero, AtStipend, OverStipend, NotHex}

\* int(s, 16) raises ValueError on an empty string or a non-hex digit.
IsHex(s) == Len(s) > 0 /\ \A k \in 1..Len(s) : s[k] < Radix

RECURSIVE HexValue(_)
HexValue(s) ==
    IF Len(s) = 0 THEN 0
    ELSE Radix * HexValue(SubSeq(s, 1, Len(s) - 1)) + s[Len(s)]

\* ------------------------------------------------------------ instructions
\* structLogs entries: op, pc and the operand stack, top of stack last.
\* SLOAD and SSTORE come with an empty stack or with a slot on top; CALL with
\* too short a stack or with <<value, to, gas>> on top, gas last.
Pcs == 0..MaxPc
Slots == {Zero, AtStipend}
SlotStacks == {<<>>} \cup {<<x>> : x \in Slots}
CallStacks ==
    {<<>>, <<OverStipend>>, <<Zero, OverStipend>>}
      \cup {<<v, Zero, g>> : v \in {Zero, AtStipend, NotHex},
                             g \in {AtStipend, OverStipend, NotHex}}
Instructions ==
    [op : {"SLOAD", "SSTORE"}, pc : Pcs, stack : SlotStacks]
      \cup [op : {"CALL"}, pc : Pcs, stack : CallStacks]
      \cup [op : {"ORIGIN", "ADD"}, pc : Pcs, stack : {<<>>}]

\* The instructions reentrancy reads every operand of: a slot on top for
\* SLOAD and SSTORE, value and gas in place for CALL (gas 2301; value 2300 or 0).
ScanInstructions ==
    [op : {"SLOAD", "SSTORE"}, pc : Pcs, stack : {<<x>> : x \in Slots}]
      \cup [op : {"CALL"}, pc : Pcs,
           stack : {<<AtStipend, Zero, OverStipend>>, <<Zero, Zero, OverStipend>>}]

\* stack[-n] of a Python list: IndexError when the list is shorter than n.
HasFromTop(stack, n) == Len(stack) >= n
FromTop(stack, n) == stack[Len(stack) + 1 - n]

\* ---------------------------------------------------------------- findings
SCWE046 == "SCWE-046"      \* reentrancy
SCWE018 == "SCWE-018"      \* tx.origin used for authorization

\* ------------------------------------------------------------ the detector
Stipend == 2300

\* line 44 with "or" for "and".
IsRiskyCallEither(gas, value) == gas > Stipend \/ value > 0

\* line 44: the call can reenter and carries ether.
IsRiskyCall(gas, value) == gas > Stipend /\ value > 0

\* line 48 with the comparison turned round.
ReadAbove(sl, pc) == \E k \in DOMAIN sl : sl[k] > pc

\* line 47-48: some recorded read sits at a pc below the call's.
ReadBelow(sl, pc) == \E k \in DOMAIN sl : sl[k] < pc

\* line 61 with the comparison turned round.
CallBelowReversed(cs, fl, pc) == \E c \in cs : c > pc /\ ~fl

\* line 59-61: some risky call sits at a pc below the write's, latch clear.
CallBelow(cs, fl, pc) == \E c \in cs : c < pc /\ ~fl

\* reentrancy raises IndexError / ValueError on these instructions.
ReentrancyRaises(i, sl, cs) ==
    \/ /\ i.op = "SLOAD"
       /\ ~HasFromTop(i.stack, 1)
    \/ /\ i.op = "CALL"
       /\ DOMAIN sl # {}
       /\ \/ ~HasFromTop(i.stack, 1)
          \/ ~IsHex(FromTop(i.stack, 1))
          \/ ~HasFromTop(i.stack, 3)
          \/ ~IsHex(FromTop(i.stack, 3))
    \/ /\ i.op = "SSTORE"
       /\ cs # {}
       /\ ~HasFromTop(i.stack, 1)

\* line 36 guarded by 'not in': the first read of a slot is kept.
RecordReadKeepsFirst(sl, slot, pc) ==
    [k \in DOMAIN sl \cup {slot} |-> IF k \in DOMAIN sl THEN sl[k] ELSE pc]

\* The SLOAD branch (lines 34-36): sloads[stack[-1]] = pc.
RecordRead(sl, slot, pc) ==
    [k \in DOMAIN sl \cup {slot} |-> IF k = slot THEN pc ELSE sl[k]]

\* A CALL whose operands parse (lines 41-42) and satisfy line 44.
IsRiskyInstr(i) ==
    /\ i.op = "CALL"
    /\ HasFromTop(i.stack, 3)
    /\ IsHex(FromTop(i.stack, 1))
    /\ IsHex(FromTop(i.stack, 3))
    /\ IsRiskyCall(HexValue(FromTop(i.stack, 1)), HexValue(FromTop(i.stack, 3)))

\* line 40 without 'and self.__sloads'.
RiskyCallTakenUnguarded(i, sl) == IsRiskyInstr(i)

\* A CALL that enters the branch of line 40 and reaches line 45.
RiskyCallTaken(i, sl) == DOMAIN sl # {} /\ IsRiskyInstr(i)

\* line 58 left out: the slot written need not have been read.
WriteOfAnySlot(i, sl, cs) ==
    /\ i.op = "SSTORE"
    /\ cs # {}
    /\ HasFromTop(i.stack, 1)

\* An SSTORE that reaches line 58 with the condition true.
WriteOfReadSlot(i, sl, cs) ==
    /\ i.op = "SSTORE"
    /\ cs # {}
    /\ HasFromTop(i.stack, 1)
    /\ FromTop(i.stack, 1) \in DOMAIN sl

\* reentrancy(instruction), lines 34-63, on an instruction it does not raise
\* on: the state it leaves and the findings it logs.
ReentrancySloads(i, sl) ==
    IF i.op = "SLOAD" THEN RecordRead(sl, FromTop(i.stack, 1), i.pc) ELSE sl

\* line 44 left out: every CALL that enters the branch is recorded.
ReentrancyCallsAnyCall(i, sl, cs) ==
    IF i.op = "CALL" /\ DOMAIN sl # {} THEN cs \cup {i.pc} ELSE cs

ReentrancyCalls(i, sl, cs) ==
    IF RiskyCallTaken(i, sl) THEN cs \cup {i.pc} ELSE cs

\* line 50 left out: the latch is never set.
ReentrancyFlagNeverSet(i, sl, fl) == fl

\* the latch set by the SSTORE branch as well (after line 62).
ReentrancyFlagSetByWrite(i, sl, fl) ==
    IF i.op = "SSTORE" /\ HasFromTop(i.stack, 1) /\ FromTop(i.stack, 1) \in DOMAIN sl
    THEN TRUE
    ELSE IF RiskyCallTaken(i, sl) /\ ReadBelow(sl, i.pc) THEN TRUE ELSE fl

ReentrancyFlag(i, sl, fl) ==
    IF RiskyCallTaken(i, sl) /\ ReadBelow(sl, i.pc) THEN TRUE ELSE fl

ReentrancyLogs(i, sl, cs, fl) ==
    IF RiskyCallTaken(i, sl) /\ ReadBelow(sl, i.pc) THEN <<SCWE046>>
    ELSE IF WriteOfReadSlot(i, sl, cs) /\ CallBelow(cs, fl, i.pc) THEN <<SCWE046>>
    ELSE <<>>

\* line 77 matching the wrong mnemonic.
TxOriginLogsOnCaller(i) == IF i.op = "CALLER" THEN <<SCWE018>> ELSE <<>>

\* tx_origin(instruction), lines 77-78.
TxOriginLogs(i) == IF i.op = "ORIGIN" THEN <<SCWE018>> ELSE <<>>

\* __init__, lines 15-19.
NewDetector == [sloads |-> <<>>, calls |-> {}, flag |-> FALSE]

\* line 88 left out: the risky-call set survives the reset.
ResetStateKeepsCalls(sl, cs, fl) == [sloads |-> <<>>, calls |-> cs, flag |-> FALSE]

\* line 87 left out: the recorded reads survive the reset.
ResetStateKeepsSloads(sl, cs, fl) == [sloads |-> sl, calls |-> {}, flag |-> FALSE]

\* reset_variables, lines 87-89.
ResetState(sl, cs, fl) == [sloads |-> <<>>, calls |-> {}, flag |-> FALSE]

\* ------------------------------------------------------------------- state
VARIABLES
    sloads,      \* self.__sloads: slot (the operand string) -> pc of its last read
    calls,       \* self.__calls: pcs of the calls classified as risky
    flag,        \* self.__flag: the "already reported" latch
    log,         \* findings logged since the last reset, oldest first
    raised,      \* the last call of reentrancy ended in an exception
    fresh,       \* a detector constructed at the last reset, given the same calls
    fed,         \* method calls since the last reset
    resets,      \* resets so far
    dirty,       \* some reset found the detector in a state other than the initial one
    seen,        \* what the instructions passed to the detector since the last reset were
    order        \* SpecScan: the pcs and the SSTOREs of the trace scanned

dvars == <<sloads, calls, flag, log, raised, fresh, fed, resets, dirty, seen, order>>

VARIABLES
    ast,                 \* self.__ast['nodes']
    test,                \* the loop variable of run()
    pcRun,               \* the call run() is about to make
    functions,           \* the list generate_test_suite returned, or None
    constructor_inputs,  \* the constructor inputs it returned, or None
    deployed_contract,   \* the instance of this round (named by its round), or None
    fidx,                \* position of execute_functions in functions
    trace,               \* the instructions of result["structLogs"] still to scan
    abortedBy,           \* the call whose exception ended run(), "" while none has
    hist                 \* what the run has done so far

rvars == <<ast, test, pcRun, functions, constructor_inputs, deployed_contract,
           fidx, trace, abortedBy, hist>>

vars == <<dvars, rvars>>

Count(seq, x) == Cardinality({k \in 1..Len(seq) : seq[k] = x})

\* What an observer of the instruction stream records, read off the
\* instructions themselves and the findings they produced.
ObsRead(i) == i.op = "SLOAD" /\ Len(i.stack) >= 1
ObsWrite(i) == i.op = "SSTORE" /\ Len(i.stack) >= 1
ObsTop(i) == i.stack[Len(i.stack)]
ObsCall(i) ==
    /\ i.op = "CALL"
    /\ Len(i.stack) >= 3
    /\ IsHex(i.stack[Len(i.stack)])
    /\ IsHex(i.stack[Len(i.stack) - 2])
ObsRisky(i) ==
    /\ ObsCall(i)
    /\ HexValue(i.stack[Len(i.stack)]) > 2300
    /\ HexValue(i.stack[Len(i.stack) - 2]) > 0

NothingSeen ==
    [ readPcs |-> {},           \* pcs of the SLOADs
      lastRead |-> <<>>,        \* slot -> pc of the latest SLOAD of the slot
      riskyCalls |-> 0,         \* CALLs with gas > 2300 and value > 0
      earlyRisky |-> 0,         \* those of them that came before every SLOAD
      lateRisky |-> 0,          \* those of them that came after some SLOAD
      earlyThenWrite |-> FALSE, \* an SSTORE of a read slot followed an early one
      plainCalls |-> 0,         \* other well-formed CALLs that followed an SLOAD
      plainThenWrite |-> FALSE, \* an SSTORE of a read slot followed such a CALL
      riskyAboveRead |-> FALSE, \* a risky CALL came after an SLOAD at a smaller pc
      riskyAboveLast |-> FALSE, \* ... a smaller pc that was the latest read of its slot
      readThenCall |-> {},      \* <<slot, pc>>: a risky CALL at pc came after an SLOAD of slot
      writeAfter |-> FALSE,     \* an SSTORE of slot at a pc above such a CALL's
      callFindings |-> 0,       \* findings that a risky CALL produced
      idleChanged |-> FALSE,    \* an instruction that is no SLOAD and no risky CALL
                                \* left __sloads, __calls or __flag changed
      origins |-> 0 ]           \* ORIGIN instructions passed to tx_origin

SeenAfterReentrancy(i, out) ==
    [ seen EXCEPT
        !.readPcs = IF ObsRead(i) THEN @ \cup {i.pc} ELSE @,
        !.lastRead = IF ObsRead(i)
                     THEN [k \in DOMAIN @ \cup {ObsTop(i)} |->
                              IF k = ObsTop(i) THEN i.pc ELSE @[k]]
                     ELSE @,
        !.riskyCalls = IF ObsRisky(i) THEN @ + 1 ELSE @,
        !.earlyRisky = IF ObsRisky(i) /\ seen.readPcs = {} THEN @ + 1 ELSE @,
        !.lateRisky = IF ObsRisky(i) /\ seen.readPcs # {} THEN @ + 1 ELSE @,
        !.earlyThenWrite = @ \/ ( /\ ObsWrite(i)
                                  /\ ObsTop(i) \in DOMAIN seen.lastRead
                                  /\ seen.earlyRisky > 0 ),
        !.plainCalls = IF ObsCall(i) /\ ~ObsRisky(i) /\ seen.readPcs # {}
                       THEN @ + 1 ELSE @,
        !.plainThenWrite = @ \/ ( /\ ObsWrite(i)
                                  /\ ObsTop(i) \in DOMAIN seen.lastRead
                                  /\ seen.plainCalls > 0 ),
        !.riskyAboveRead = @ \/ (ObsRisky(i) /\ \E p \in seen.readPcs : p < i.pc),
        !.riskyAboveLast = @ \/ ( /\ ObsRisky(i)
                                  /\ \E k \in DOMAIN seen.lastRead :
                                        seen.lastRead[k] < i.pc ),
        !.readThenCall = IF ObsRisky(i)
                         THEN @ \cup {<<k, i.pc>> : k \in DOMAIN seen.lastRead} ELSE @,
        !.writeAfter = @ \/ ( /\ ObsWrite(i)
                              /\ \E rc \in seen.readThenCall :
                                    rc[1] = ObsTop(i) /\ rc[2] < i.pc ),
        !.callFindings = IF ObsRisky(i) THEN @ + Len(out) ELSE @ ]

NoOrder ==
    [ lastPc |-> -1,            \* pc of the latest instruction
      increasing |-> TRUE,      \* every instruction had a pc above the one before it
      riskyPcs |-> {},          \* pcs of the risky CALLs that came after an SLOAD
      dueWrites |-> 0,          \* SSTOREs of a read slot above such a pc, no finding
                                \* of a CALL before them
      duePcs |-> 0,             \* the pcs of riskyPcs below them, summed over them
      lateWrites |-> 0,         \* SSTOREs of a read slot after a finding of a CALL
      writeFindings |-> 0,      \* findings that an SSTORE produced
      writeChanged |-> FALSE ]  \* an SSTORE left __sloads, __calls or __flag changed

ObsDueWrite(i) ==
    /\ ObsWrite(i)
    /\ ObsTop(i) \in DOMAIN seen.lastRead
    /\ ~seen.riskyAboveLast
    /\ \E c \in order.riskyPcs : c < i.pc

OrderAfterReentrancy(i, out, changed) ==
    [ lastPc |-> i.pc,
      increasing |-> order.increasing /\ i.pc > order.lastPc,
      riskyPcs |-> IF ObsRisky(i) /\ seen.readPcs # {}
                   THEN order.riskyPcs \cup {i.pc} ELSE order.riskyPcs,
      dueWrites |-> IF ObsDueWrite(i) THEN order.dueWrites + 1 ELSE order.dueWrites,
      duePcs |-> IF ObsDueWrite(i)
                 THEN order.duePcs + Cardinality({c \in order.riskyPcs : c < i.pc})
                 ELSE order.duePcs,
      lateWrites |-> IF /\ ObsWrite(i)
                        /\ ObsTop(i) \in DOMAIN seen.lastRead
                        /\ seen.riskyAboveLast
                     THEN order.lateWrites + 1 ELSE order.lateWrites,
      writeFindings |-> IF i.op = "SSTORE"
                        THEN order.writeFindings + Len(out) ELSE order.writeFindings,
      writeChanged |-> order.writeChanged \/ (i.op = "SSTORE" /\ changed) ]

\* An instruction that is neither an SLOAD nor a risky CALL.
ObsIdle(i) == i.op # "SLOAD" /\ ~ObsRisky(i)

\* The same call made on the detector constructed at the last reset.
FreshAfterReentrancy(i) ==
    IF ReentrancyRaises(i, fresh.sloads, fresh.calls) THEN fresh
    ELSE [ sloads |-> ReentrancySloads(i, fresh.sloads),
           calls |-> ReentrancyCalls(i, fresh.sloads, fresh.calls),
           flag |-> ReentrancyFlag(i, fresh.sloads, fresh.flag),
           log |-> fresh.log \o ReentrancyLogs(i, fresh.sloads, fresh.calls, fresh.flag) ]

DInit ==
    /\ sloads = NewDetector.sloads
    /\ calls = NewDetector.calls
    /\ flag = NewDetector.flag
    /\ log = <<>>
    /\ raised = FALSE
    /\ fresh = [sloads |-> NewDetector.sloads, calls |-> NewDetector.calls,
                flag |-> NewDetector.flag, log |-> <<>>]
    /\ fed = 0
    /\ resets = 0
    /\ dirty = FALSE
    /\ seen = NothingSeen
    /\ order = NoOrder

\* reentrancy(i), lines 21-63, whoever calls it.
ReentrancyCall(i) ==
    /\ IF ReentrancyRaises(i, sloads, calls)
       THEN /\ raised' = TRUE
            /\ UNCHANGED <<sloads, calls, flag, log>>
       ELSE /\ raised' = FALSE
            /\ sloads' = ReentrancySloads(i, sloads)
            /\ calls' = ReentrancyCalls(i, sloads, calls)
            /\ flag' = ReentrancyFlag(i, sloads, flag)
            /\ log' = log \o ReentrancyLogs(i, sloads, calls, flag)
    /\ fresh' = FreshAfterReentrancy(i)
    /\ seen' = [SeenAfterReentrancy(i, SubSeq(log', Len(log) + 1, Len(log')))
                  EXCEPT !.idleChanged =
                     @ \/ (ObsIdle(i) /\ <<sloads', calls', flag'>> # <<sloads, calls, flag>>)]
    /\ fed' = fed + 1
    /\ UNCHANGED <<resets, dirty>>
    /\ UNCHANGED rvars

\* detector.reentrancy(i)
Reentrancy(i) ==
    /\ fed < MaxTrace
    /\ ReentrancyCall(i)
    /\ UNCHANGED order

\* detector.tx_origin(i)
TxOrigin(i) ==
    /\ fed < MaxTrace
    /\ log' = log \o TxOriginLogs(i)
    /\ fresh' = [fresh EXCEPT !.log = @ \o TxOriginLogs(i)]
    /\ seen' = [seen EXCEPT !.origins = IF i.op = "ORIGIN" THEN @ + 1 ELSE @]
    /\ raised' = FALSE
    /\ fed' = fed + 1
    /\ UNCHANGED <<sloads, calls, flag, resets, dirty, order>>
    /\ UNCHANGED rvars

\* detector.reset_variables(); the comparison detector is constructed anew.
ResetVariables ==
    /\ resets < MaxResets
    /\ sloads' = ResetState(sloads, calls, flag).sloads
    /\ calls' = ResetState(sloads, calls, flag).calls
    /\ flag' = ResetState(sloads, calls, flag).flag
    /\ log' = <<>>
    /\ raised' = FALSE
    /\ fresh' = [sloads |-> NewDetector.sloads, calls |-> NewDetector.calls,
                 flag |-> NewDetector.flag, log |-> <<>>]
    /\ fed' = 0
    /\ resets' = resets + 1
    /\ dirty' = (dirty \/ (DOMAIN sloads # {} /\ calls # {} /\ flag))
    /\ seen' = NothingSeen
    /\ UNCHANGED order
    /\ UNCHANGED rvars

DNext ==
    \/ \E i \in Instructions : Reentrancy(i)
    \/ \E i \in Instructions : TxOrigin(i)
    \/ ResetVariables

\* The detector alone: no run is under way.
NoRun ==
    /\ ast = <<>>
    /\ test = 0
    /\ pcRun = "idle"
    /\ functions = NoneValue
    /\ constructor_inputs = NoneValue
    /\ deployed_contract = NoneValue
    /\ fidx = 0
    /\ trace = <<>>
    /\ abortedBy = ""
    /\ hist = <<>>

Init == DInit /\ NoRun

Spec == Init /\ [][DNext]_vars

\* reentrancy(i) on the next instruction of the trace scanned.
Scan(i) ==
    /\ fed < MaxScan
    /\ ReentrancyCall(i)
    /\ order' = OrderAfterReentrancy(i, SubSeq(log', Len(log) + 1, Len(log')),
                                     <<sloads', calls', flag'>> # <<sloads, calls, flag>>)

ScanNext == \E i \in ScanInstructions : Scan(i)

SpecScan == Init /\ [][ScanNext]_vars

\* ------------------------------------------------- claims on the detector
Reported == Count(log, SCWE046)

\* C1: after reset_variables the detector is in the state of a newly
\* constructed one, and on every further instruction it is in the same state
\* and has logged the same findings as a newly constructed detector given the
\* same instructions.
C1_ResetLeavesNoLeak ==
    /\ sloads = fresh.sloads
    /\ calls = fresh.calls
    /\ flag = fresh.flag
    /\ log = fresh.log
    /\ (resets > 0 /\ fed = 0) =>
          /\ sloads = NewDetector.sloads
          /\ calls = NewDetector.calls
          /\ flag = NewDetector.flag

\* A reset that found reads, risky calls and the latch set, followed by a
\* trace that produced a reentrancy finding.
C1_Witness == dirty /\ resets > 0 /\ Reported > 0 /\ flag

\* C2 as stated: an SLOAD at p1, later exactly one risky CALL at p2 > p1 and
\* no other risky CALL: the reentrancy finding is logged exactly once.
C2_OneRiskyCallOneFinding ==
    (seen.riskyCalls = 1 /\ seen.riskyAboveRead) => Reported = 1

\* C2 amended: the same, when at the CALL the latest read of some slot is at
\* a pc below p2.
C2_OneRiskyCallAboveLatestRead ==
    (seen.riskyCalls = 1 /\ seen.riskyAboveLast) => Reported = 1

\* One risky CALL above a recorded read, then an SSTORE of the slot read.
C2_Witness ==
    /\ seen.riskyCalls = 1
    /\ seen.riskyAboveLast
    /\ seen.writeAfter
    /\ Reported = 1

\* C3: within one trace the risky CALLs together log the finding at most
\* once: after the latch is set no further risky CALL logs it.
C3_CallBranchOncePerTrace == seen.callFindings <= 1

\* C4: a trace without a risky CALL logs no reentrancy finding and leaves
\* the risky-call set empty.
C4_NoRiskyCallNoFinding ==
    seen.riskyCalls = 0 => (calls = {} /\ Reported = 0)

\* An SLOAD, then a CALL that is not risky, then an SSTORE of the slot read.
C4_Witness ==
    /\ seen.riskyCalls = 0
    /\ seen.plainCalls > 0
    /\ seen.plainThenWrite

\* C5: SLOAD of S, then a risky CALL at c, then an SSTORE of S at w > c: at
\* least one reentrancy finding has been logged.
C5_WriteAfterRiskyCallReported == seen.writeAfter => Reported >= 1

\* The pattern with the SLOAD at a pc that is not below the CALL's: the
\* finding comes from the SSTORE.
C5_Witness == seen.writeAfter /\ ~flag /\ seen.callFindings = 0 /\ Reported = 1

\* C6: the tx-origin findings of a trace are as many as its ORIGIN
\* instructions, whatever the reentrancy state.
C6_OneFindingPerOrigin == Count(log, SCWE018) = seen.origins

\* Two ORIGINs reported twice by a detector that holds a recorded read.
C6_Witness ==
    /\ seen.origins = 2
    /\ Count(log, SCWE018) = 2
    /\ DOMAIN sloads # {}

\* C16: while every risky CALL so far came before the first SLOAD, the
\* risky-call set is empty and no reentrancy finding has been logged, whatever
\* SLOADs and SSTOREs followed.
C16_CallBeforeAnyReadIgnored ==
    seen.lateRisky = 0 => (calls = {} /\ Reported = 0)

\* A risky CALL, then an SLOAD, then an SSTORE of the slot read.
C16_Witness ==
    /\ seen.earlyRisky > 0
    /\ seen.lateRisky = 0
    /\ seen.earlyThenWrite

\* C19: __sloads maps exactly the slots read since the last reset, each to
\* the pc of its latest SLOAD; instructions other than SLOAD leave it alone.
C19_SloadsHoldLatestRead == sloads = seen.lastRead

\* One slot read at two pcs, then a further instruction.
C19_Witness ==
    /\ Cardinality(seen.readPcs) = 2
    /\ Cardinality(DOMAIN sloads) = 1
    /\ fed = 3

\* C17: an SSTORE leaves __sloads, __calls and __flag as they were, and every
\* SSTORE of a read slot at a pc above a risky call's, the latch clear, logs
\* the finding, however many such SSTOREs came before it.
C17_WriteLeavesStateAlone ==
    /\ ~order.writeChanged
    /\ order.writeFindings >= order.dueWrites

\* Two such SSTOREs, each of which logged the finding; the latch is clear.
C17_Witness ==
    /\ order.dueWrites = 2
    /\ order.writeFindings = 2
    /\ ~flag

C21_LatchCallsReadsNested ==
    /\ flag => calls # {}
    /\ calls # {} => DOMAIN sloads # {}
    /\ calls \subseteq {rc[2] : rc \in seen.readThenCall}
    /\ ~seen.idleChanged

\* The latch set by a risky CALL after an SLOAD, then an SSTORE of the slot
\* read at a pc above the CALL's.
C21_Witness ==
    /\ flag
    /\ calls # {}
    /\ seen.writeAfter

\* C7: no error escapes the detector on a malformed instruction.
C7_DetectorNeverFails == ~raised

\* ======================================================== the fuzzing run

\* ------------------------------------------------------------------ bounds
NumTests == 2       \* test_cases, the rounds of one run

\* --------------------------------------------------- the syntax tree (AST)
\* self.__ast['nodes'] holds the source unit's nodes; a ContractDefinition
\* holds its members in 'nodes'. A member is a record of the keys the walk
\* reads; parameters is the list of the parameters' typeString.
Fn(kind, name, params, mut) ==
    [nodeType |-> "FunctionDefinition", kind |-> kind, name |-> name,
     parameters |-> params, stateMutability |-> mut]
StateVar == [nodeType |-> "VariableDeclaration"]
Pragma == [nodeType |-> "PragmaDirective"]
Contract(members) == [nodeType |-> "ContractDefinition", nodes |-> members]

Asts ==
    { \* two functions, one of them payable and without parameters
      <<Pragma, Contract(<<StateVar,
                           Fn("function", "deposit", <<>>, "payable"),
                           Fn("function", "withdraw", <<"uint256">>, "nonpayable")>>)>>,
      \* a constructor with an address, a function whose inputs cannot be
      \* generated (int('32[]') raises) and one with an unrecognized type
      <<Pragma, Contract(<<Fn("constructor", "", <<"address">>, "nonpayable"),
                           Fn("function", "store", <<"bytes32[]">>, "nonpayable"),
                           Fn("function", "set", <<"uint8">>, "nonpayable")>>)>>,
      \* a tree of a compiler that writes no 'kind' key
      <<Pragma, Contract(<<Fn(Absent, "pay", <<>>, "payable"),
                           Fn(Absent, "get", <<"bool">>, "view")>>)>>,
      \* a payable constructor between two functions, every type generated
      <<Pragma, Contract(<<Fn("function", "init", <<"string", "bool">>, "view"),
                           Fn("constructor", "", <<"address", "uint">>, "payable"),
                           Fn("function", "fund", <<"bytes32">>, "payable")>>)>> }

\* --------------------------------------------------------- generate_inputs
\* The branch of lines 60-72 a typeString takes.
Recognized == {"uint256", "uint", "address", "string", "bool"}
StartsWithBytes == {"bytes", "bytes32", "bytes32[]"}
\* line 71: len(param_type) > 5 and int(suffix) raises ValueError.
BytesSuffixRaises(t) == t = "bytes32[]"

\* The value generated for one parameter (the random draw is left out: the
\* value is named by its type); None for a type no branch takes (line 57).
ValueFor(t) ==
    IF t \in Recognized \/ t \in StartsWithBytes THEN <<"value", t>> ELSE <<"None">>

\* line 74 left out: no value is appended.
GenerateInputsEmpty(params) == Some(<<>>)

\* lines 52-80: None when an exception was caught, else one entry per parameter.
GenerateInputs(params) ==
    IF \E k \in 1..Len(params) :
          params[k] = Absent \/ (params[k] \in StartsWithBytes /\ BytesSuffixRaises(params[k]))
    THEN NoneValue
    ELSE Some([k \in 1..Len(params) |-> ValueFor(params[k])])

\* ----------------------------------------------------- generate_test_suite
\* line 109, in units of 10^15 wei: randint(10**15, 5 * 10**18).
PayableLow == 1
PayableHigh == 5000
PayableValues == {PayableLow, PayableHigh}

RECURSIVE Members(_)
\* lines 99-102: the members of every ContractDefinition, in order.
Members(nodes) ==
    IF Len(nodes) = 0 THEN <<>>
    ELSE (IF Head(nodes).nodeType = "ContractDefinition" THEN Head(nodes).nodes ELSE <<>>)
           \o Members(Tail(nodes))

\* lines 104-113: a member whose visit raises KeyError.
VisitRaises(vf) ==
    /\ vf.nodeType = "FunctionDefinition"
    /\ \/ vf.kind = Absent
       \/ vf.kind = "function" /\ vf.stateMutability = Absent

IsFunction(vf) == vf.nodeType = "FunctionDefinition" /\ vf.kind = "function"
IsConstructor(vf) == vf.nodeType = "FunctionDefinition" /\ vf.kind = "constructor"

\* lines 114-116: the walk ended in the except clause.
GenerateTestSuiteFails(tree) ==
    \E k \in 1..Len(Members(tree)) : VisitRaises(Members(tree)[k])

RECURSIVE FunctionPlans(_)
\* lines 105-110: the lists the walk can build, one entry per function, each
\* payable one with either end of the value range.
FunctionPlans(ms) ==
    IF Len(ms) = 0 THEN {<<>>}
    ELSE IF ~IsFunction(Head(ms)) THEN FunctionPlans(Tail(ms))
    ELSE { <<[name |-> Head(ms).name,
              inputs |-> GenerateInputs(Head(ms).parameters),
              value |-> v]>> \o rest :
             v \in (IF Head(ms).stateMutability = "payable" THEN PayableValues ELSE {0}),
             rest \in FunctionPlans(Tail(ms)) }

RECURSIVE ConstructorInputs(_, _)
\* lines 97, 112-113: the inputs of the last constructor visited, else None.
ConstructorInputs(ms, acc) ==
    IF Len(ms) = 0 THEN acc
    ELSE ConstructorInputs(Tail(ms),
            IF IsConstructor(Head(ms)) THEN GenerateInputs(Head(ms).parameters) ELSE acc)

PlanLength(tree) ==
    Cardinality({k \in 1..Len(Members(tree)) : IsFunction(Members(tree)[k])})

\* ------------------------------------------------------ the traces of a run
\* result["structLogs"] of one executed call.
Ins(op, pc, stack) == [op |-> op, pc |-> pc, stack |-> stack]
RiskyStack == <<AtStipend, Zero, OverStipend>>    \* value 2300, gas 2301
Traces ==
    { <<>>,
      <<Ins("ORIGIN", 0, <<>>)>>,
      <<Ins("SLOAD", 0, <<Zero>>), Ins("CALL", 1, RiskyStack)>>,
      <<Ins("ADD", 0, <<>>), Ins("SLOAD", 1, <<>>), Ins("ORIGIN", 2, <<>>)>> }

\* ------------------------------------------------------------------- run()
Rounds == 0..(NumTests - 1)

NothingDone ==
    [ started |-> {},          \* rounds whose test case began (line 152)
      failedBuilds |-> {},     \* rounds whose generate_test_suite returned (None, None)
      deployRequests |-> {},   \* rounds in which deploy_smart_contract was called
      deployCount |-> [r \in Rounds |-> 0],   \* calls of deploy_smart_contract per round
      failedDeploys |-> {},    \* rounds whose deploy_smart_contract returned None
      against |-> {},          \* <<round, contract>>: the contract a call was sent to
      executed |-> {},         \* <<round, k>>: execute_transaction was called for plan k
      skipped |-> {},          \* <<round, k>>: no receipt, or the trace says failed
      scanned |-> {},          \* <<round, k>>: instructions of its trace reached the detector
      findingRounds |-> {} ]   \* rounds in which a finding was logged

RInit ==
    /\ ast \in Asts
    /\ test = 0
    /\ pcRun = IF NumTests > 0 THEN "generate_test_suite" ELSE "done"
    /\ functions = NoneValue
    /\ constructor_inputs = NoneValue
    /\ deployed_contract = NoneValue
    /\ fidx = 0
    /\ trace = <<>>
    /\ abortedBy = ""
    /\ hist = NothingDone

\* line 151 and 167: the test case is over; the next one begins, if any.
NextTest ==
    /\ test' = test + 1
    /\ pcRun' = IF test + 1 < NumTests THEN "generate_test_suite" ELSE "done"
    /\ fidx' = 0

\* line 129: the for loop of execute_functions moves on.
NextFunction ==
    IF fidx < Len(The(functions))
    THEN /\ fidx' = fidx + 1
         /\ pcRun' = "execute_transaction"
         /\ test' = test
    ELSE NextTest

\* An uncaught exception leaves run(): the program ends.
Abort(by) ==
    /\ pcRun' = "aborted"
    /\ abortedBy' = by

\* run(), line 154: functions, constructor_inputs = self.generate_test_suite()
GenerateTestSuite ==
    /\ pcRun = "generate_test_suite"
    /\ IF GenerateTestSuiteFails(ast)
       THEN /\ functions' = NoneValue
            /\ constructor_inputs' = NoneValue
            /\ hist' = [hist EXCEPT !.started = @ \cup {test},
                                    !.failedBuilds = @ \cup {test}]
       ELSE /\ functions' \in {Some(fs) : fs \in FunctionPlans(Members(ast))}
            /\ constructor_inputs' = ConstructorInputs(Members(ast), NoneValue)
            /\ hist' = [hist EXCEPT !.started = @ \cup {test}]
    /\ pcRun' = "deploy_smart_contract"
    /\ UNCHANGED <<ast, test, deployed_contract, fidx, trace, abortedBy>>
    /\ UNCHANGED dvars

\* run(), line 164: 'if deployed_contract:' with the condition left out.
RunsFunctionsAlways(contract) == TRUE

\* run(), line 164: execute_functions is called when an instance came back.
RunsFunctions(contract) == contract # NoneValue

\* run(), lines 157-165: deploy_smart_contract (None when the deployment
\* failed), then execute_functions when an instance came back; its for loop
\* raises TypeError when functions is None.
DeploySmartContract ==
    /\ pcRun = "deploy_smart_contract"
    /\ \E deployed \in BOOLEAN :
          /\ deployed_contract' = IF deployed THEN Some(test) ELSE NoneValue
          /\ hist' = [hist EXCEPT
                        !.deployRequests = @ \cup {test},
                        !.deployCount[test] = @ + 1,
                        !.failedDeploys = IF deployed THEN @ ELSE @ \cup {test}]
          /\ IF ~RunsFunctions(deployed_contract')
             THEN NextTest /\ UNCHANGED abortedBy
             ELSE IF functions = NoneValue
             THEN Abort("execute_functions") /\ UNCHANGED <<test, fidx>>
             ELSE IF Len(The(functions)) = 0
             THEN NextTest /\ UNCHANGED abortedBy
             ELSE /\ fidx' = 1
                  /\ pcRun' = "execute_transaction"
                  /\ UNCHANGED <<test, abortedBy>>
    /\ UNCHANGED <<ast, functions, constructor_inputs, trace>>
    /\ UNCHANGED dvars

\* execute_functions, lines 130-132: execute_transaction returns a receipt,
\* or None when anything raised (always when inputs is None: len(None)).
ExecuteTransaction ==
    /\ pcRun = "execute_transaction"
    /\ \E receipt \in (IF The(functions)[fidx].inputs = NoneValue
                       THEN {NoneValue} ELSE {NoneValue, Some("receipt")}) :
          IF receipt = NoneValue
          THEN /\ hist' = [hist EXCEPT !.executed = @ \cup {<<test, fidx>>},
                                       !.against = @ \cup {<<test, deployed_contract>>},
                                       !.skipped = @ \cup {<<test, fidx>>}]
               /\ NextFunction
          ELSE /\ hist' = [hist EXCEPT !.executed = @ \cup {<<test, fidx>>},
                                       !.against = @ \cup {<<test, deployed_contract>>}]
               /\ pcRun' = "debug_transaction"
               /\ UNCHANGED <<test, fidx>>
    /\ UNCHANGED <<ast, functions, constructor_inputs, deployed_contract, trace, abortedBy>>
    /\ UNCHANGED dvars

\* execute_functions, lines 133-135: debug_transaction raises, or returns a
\* result that says failed, or one whose structLogs are to be scanned.
DebugTransaction ==
    /\ pcRun = "debug_transaction"
    /\ \/ /\ Abort("debug_transaction")
          /\ UNCHANGED <<test, fidx, trace, hist>>
       \/ /\ hist' = [hist EXCEPT !.skipped = @ \cup {<<test, fidx>>}]
          /\ NextFunction
          /\ UNCHANGED <<trace, abortedBy>>
       \/ /\ trace' \in Traces
          /\ pcRun' = "structLogs"
          /\ UNCHANGED <<test, fidx, abortedBy, hist>>
    /\ UNCHANGED <<ast, functions, constructor_inputs, deployed_contract>>
    /\ UNCHANGED dvars

\* execute_functions, lines 136-139: one instruction through reentrancy and,
\* unless that raised, through tx_origin.
ScanInstruction ==
    /\ pcRun = "structLogs"
    /\ trace # <<>>
    /\ LET i == Head(trace)
           out == ReentrancyLogs(i, sloads, calls, flag) \o TxOriginLogs(i)
       IN IF ReentrancyRaises(i, sloads, calls)
          THEN /\ raised' = TRUE
               /\ Abort("reentrancy")
               /\ UNCHANGED <<sloads, calls, flag, log, seen, trace>>
               /\ hist' = [hist EXCEPT !.scanned = @ \cup {<<test, fidx>>}]
          ELSE /\ raised' = FALSE
               /\ sloads' = ReentrancySloads(i, sloads)
               /\ calls' = ReentrancyCalls(i, sloads, calls)
               /\ flag' = ReentrancyFlag(i, sloads, flag)
               /\ log' = log \o out
               /\ seen' = [SeenAfterReentrancy(i, ReentrancyLogs(i, sloads, calls, flag))
                             EXCEPT !.origins = IF i.op = "ORIGIN" THEN @ + 1 ELSE @,
                                    !.idleChanged =
                                       @ \/ ( /\ ObsIdle(i)
                                              /\ <<sloads', calls', flag'>>
                                                    # <<sloads, calls, flag>> )]
               /\ trace' = Tail(trace)
               /\ hist' = [hist EXCEPT
                             !.scanned = @ \cup {<<test, fidx>>},
                             !.findingRounds = IF out # <<>> THEN @ \cup {test} ELSE @]
               /\ UNCHANGED <<pcRun, abortedBy>>
    /\ fed' = fed + 1
    /\ UNCHANGED <<fresh, resets, dirty, order>>
    /\ UNCHANGED <<ast, test, functions, constructor_inputs, deployed_contract, fidx>>

\* execute_functions, line 141: the trace is exhausted; reset_variables, then
\* the next function.
EndOfTrace ==
    /\ pcRun = "structLogs"
    /\ trace = <<>>
    /\ sloads' = ResetState(sloads, calls, flag).sloads
    /\ calls' = ResetState(sloads, calls, flag).calls
    /\ flag' = ResetState(sloads, calls, flag).flag
    /\ log' = <<>>
    /\ raised' = FALSE
    /\ fed' = 0
    /\ seen' = NothingSeen
    /\ dirty' = (dirty \/ (DOMAIN sloads # {} /\ calls # {} /\ flag))
    /\ NextFunction
    /\ UNCHANGED <<fresh, resets, order>>
    /\ UNCHANGED <<ast, functions, constructor_inputs, deployed_contract, trace,
                   abortedBy, hist>>

RNext ==
    \/ GenerateTestSuite
    \/ DeploySmartContract
    \/ ExecuteTransaction
    \/ DebugTransaction
    \/ ScanInstruction
    \/ EndOfTrace

InitRun == DInit /\ RInit

SpecRun == InitRun /\ [][RNext]_vars

\* ------------------------------------------------------ claims on the run
Ended == pcRun \in {"done", "aborted"}

\* C8: a round whose generate_test_suite failed requests no deployment,
\* executes no call and logs no finding, and run() is not ended by it.
C8_FailedBuildSkipsRound ==
    /\ \A r \in hist.failedBuilds :
          /\ r \notin hist.deployRequests
          /\ \A k \in 1..PlanLength(ast) : <<r, k>> \notin hist.executed
          /\ r \notin hist.findingRounds
    /\ abortedBy # "execute_functions"

\* C9: a debug_transaction that fails does not end run(): the next plan and
\* the later rounds are still reached.
C9_TraceFailureIsCallLocal == abortedBy # "debug_transaction"

\* C10: no instruction of a call that returned no receipt or reverted
\* reaches the detector, and when run() has ended every later plan of that
\* round has been executed and every later round has begun.
C10_BadCallNeverEndsCampaign ==
    /\ \A rk \in hist.skipped : rk \notin hist.scanned
    /\ Ended =>
          \A rk \in hist.skipped :
              /\ \A k \in (rk[2] + 1)..PlanLength(ast) : <<rk[1], k>> \in hist.executed
              /\ \A r \in (rk[1] + 1)..(NumTests - 1) : r \in hist.started

\* C11: a round whose deployment failed executes no plan, has no trace
\* scanned and is followed by the next round; every round that has passed the
\* deployment step requested exactly one deployment and the others none; a
\* call is only sent to the contract deployed in its own round.
C11_FailedDeploySkipsRound ==
    /\ \A r \in hist.failedDeploys :
          /\ \A k \in 1..PlanLength(ast) :
                <<r, k>> \notin hist.executed /\ <<r, k>> \notin hist.scanned
          /\ test > r
    /\ \A r \in Rounds :
          hist.deployCount[r] =
             IF r < test \/ (r = test /\ pcRun \notin {"generate_test_suite",
                                                       "deploy_smart_contract", "done"})
             THEN 1 ELSE 0
    /\ \A rc \in hist.against : rc[2] = Some(rc[1])

\* A failed deployment in one round, a call executed in a later one.
C11_Witness ==
    \E r \in hist.failedDeploys : \E rk \in hist.executed : rk[1] > r

\* ------------------------------------------- claims on the generated plans
\* lines 104-110: the declarations a plan entry is built for, in order.
FunctionMembers(tree) == SelectSeq(Members(tree), IsFunction)

\* lines 60-72: the typeStrings some branch generates a value for.
GeneratedTypes == {"uint256", "uint", "address", "string", "bool", "bytes", "bytes32"}

\* C12: generate_inputs returns None for a parameter list that holds a type
\* it generates no value for, and otherwise a list with one value that is
\* not None per parameter.
C12_UnrecognizedTypeFailsWhole ==
    functions # NoneValue =>
       \A k \in 1..Len(The(functions)) :
          LET params == FunctionMembers(ast)[k].parameters
              inputs == The(functions)[k].inputs
          IN /\ (\E j \in 1..Len(params) : params[j] \notin GeneratedTypes)
                   => inputs = NoneValue
             /\ inputs # NoneValue =>
                   /\ Len(The(inputs)) = Len(params)
                   /\ \A j \in 1..Len(params) : The(inputs)[j] # <<"None">>

\* C13: when generate_inputs returned None for a function, generate_test_suite
\* returns no plan list (never one with an entry without inputs), and no plan
\* of that round is executed.
C13_FailedInputsFailBuild ==
    LET withoutInputs ==
           IF functions = NoneValue THEN {}
           ELSE {k \in 1..Len(The(functions)) : The(functions)[k].inputs = NoneValue}
    IN /\ withoutInputs = {}
       /\ \A k \in 1..Len(FunctionMembers(ast)) :
             GenerateInputs(FunctionMembers(ast)[k].parameters) = NoneValue
                => hist.executed = {}

\* C14: when the first instruction of a call's trace is about to be passed to
\* the detector, __sloads and __calls are empty and __flag is False.
C14_FreshDetectorPerCall ==
    (pcRun = "structLogs" /\ fed = 0) =>
       /\ DOMAIN sloads = {}
       /\ calls = {}
       /\ ~flag

\* The trace of a call of a later round is about to be scanned, the call
\* before it was skipped, and an earlier trace had left reads, a risky call
\* and the latch behind.
C14_Witness ==
    /\ pcRun = "structLogs" /\ fed = 0 /\ trace # <<>>
    /\ dirty
    /\ test > 0
    /\ <<test, fidx - 1>> \in hist.skipped

\* A tree whose FunctionDefinition nodes carry 'kind' and 'stateMutability'
\* and whose parameter types all have a branch in generate_inputs.
WellFormed(tree) ==
    \A k \in 1..Len(Members(tree)) :
       LET vf == Members(tree)[k]
       IN vf.nodeType = "FunctionDefinition" =>
             /\ vf.kind # Absent
             /\ vf.stateMutability # Absent
             /\ \A j \in 1..Len(vf.parameters) : vf.parameters[j] \in GeneratedTypes

\* C15: for such a tree generate_test_suite returns one entry per node of
\* kind 'function', in order, with as many inputs as the function has
\* parameters, none of them None, with value 0 unless the function is payable
\* and then within [10^15, 5 * 10^18] wei; the constructor adds no entry and
\* its inputs are returned apart.
C15_OnePlanPerFunction ==
    (WellFormed(ast) /\ hist.started # {}) =>
       /\ functions # NoneValue
       /\ Len(The(functions)) = Len(FunctionMembers(ast))
       /\ \A k \in 1..Len(FunctionMembers(ast)) :
             LET vf == FunctionMembers(ast)[k]
                 plan == The(functions)[k]
             IN /\ plan.name = vf.name
                /\ plan.inputs # NoneValue
                /\ Len(The(plan.inputs)) = Len(vf.parameters)
                /\ \A j \in 1..Len(vf.parameters) : The(plan.inputs)[j] # <<"None">>
                /\ IF vf.stateMutability = "payable"
                   THEN plan.value \in PayableLow..PayableHigh
                   ELSE plan.value = 0
       /\ \A k \in 1..Len(Members(ast)) :
             LET vf == Members(ast)[k]
             IN (vf.nodeType = "FunctionDefinition" /\ vf.kind = "constructor") =>
                   /\ constructor_inputs # NoneValue
                   /\ Len(The(constructor_inputs)) = Len(vf.parameters)
                   /\ \A n \in 1..Len(The(functions)) : The(functions)[n].name # vf.name

\* A list returned for a tree with a constructor, a payable function and a
\* function that is not payable and has parameters.
C15_Witness ==
    /\ WellFormed(ast) /\ hist.started # {}
    /\ functions # NoneValue /\ constructor_inputs # NoneValue
    /\ \E k \in 1..Len(The(functions)) : The(functions)[k].value >= PayableLow
    /\ \E k \in 1..Len(The(functions)) :
          /\ The(functions)[k].value = 0
          /\ The(functions)[k].inputs # NoneValue
          /\ Len(The(The(functions)[k].inputs)) > 1

====
